---- MODULE Spec2Model ----
(***************************************************************************)
(* Model of tap_saasoptics/sync.py: the sync orchestrator (sync,           *)
(* should_sync_stream, update_currently_syncing), the stream engine        *)
(* (sync_endpoint) and the record filter (process_records).                *)
(*                                                                         *)
(* Values.  Python values that the code stores in the state or compares    *)
(* are records [k, n, us, fmt]:                                            *)
(*   k = "none"  None                                                      *)
(*   k = "int"   the integer n                                             *)
(*   k = "dt"    a datetime STRING: n whole seconds since an epoch, us the *)
(*               microsecond field, fmt = "sec" for                        *)
(*               %Y-%m-%dT%H:%M:%SZ and "us" for %Y-%m-%dT%H:%M:%S.%fZ     *)
(* A datetime OBJECT (utils.now(), strptime_to_utc(..)) is [t, us].        *)
(***************************************************************************)
EXTENDS Integers, Sequences, FiniteSets, TLC

\* ------------------------------------------------------------------ bounds
MaxDayIdx == 2      \* bookmarks and now lie on day 0, DayStep, .., MaxDayIdx*DayStep
DayStep   == 20     \* spacing of that grid, in days
MaxRuns   == 2      \* runs of sync (the first and the restarted ones)
MaxSec    == 1      \* process_records inputs: seconds 0..MaxSec
MaxMicro  == 1      \* process_records inputs: microseconds 0..MaxMicro
MaxInt    == 2      \* process_records inputs: integer keys and ids 0..MaxInt
MaxRecs   == 2      \* process_records inputs: records per page

\* ------------------------------------------------------- program constants
DaysInterval == 30      \* days_interval = 30
DaySecs      == 86400   \* timedelta(days=1) in seconds

\* ------------------------------------------------------------------ values
NoneV == [k |-> "none", n |-> 0, us |-> 0, fmt |-> "-"]
IntV(i) == [k |-> "int", n |-> i, us |-> 0, fmt |-> "-"]
DtStr(s, u, f) == [k |-> "dt", n |-> s, us |-> u, fmt |-> f]
None == "None"

\* Python truthiness of a value (None and 0 are falsy)
Truthy(v) == /\ v.k # "none"
             /\ ~(v.k = "int" /\ v.n = 0)

\* v > w as Python evaluates it: integers numerically, strings
\* lexicographically.  The two datetime formats agree on the first 19
\* characters (the seconds); the 20th is 'Z' for "sec" and '.' for "us",
\* and '.' < 'Z'.
PyGT(v, w) ==
    IF v.k = "int"
    THEN v.n > w.n
    ELSE \/ v.n > w.n
         \/ /\ v.n = w.n
            /\ \/ (v.fmt = "sec" /\ w.fmt = "us")
               \/ (v.fmt = "us" /\ w.fmt = "us" /\ v.us > w.us)

PyGE(v, w) == PyGT(v, w) \/ v = w

\* singer.utils.strptime_to_utc: datetime string -> datetime object
strptime_to_utc(s) == [t |-> s.n, us |-> s.us]

\* singer.utils.strftime: datetime object -> "%Y-%m-%dT%H:%M:%S.%fZ"
strftime(d) == DtStr(d.t, d.us, "us")

\* d + timedelta(days=days)
PlusDays(d, days) == [t |-> d.t + days * DaySecs, us |-> d.us]

\* datetime object comparison a > b
DtGT(a, b) == a.t > b.t \/ (a.t = b.t /\ a.us > b.us)

\* chronological order of two values of the same kind (used by the
\* properties, not by the code)
ChronGE(v, w) == v.n > w.n \/ (v.n = w.n /\ v.us >= w.us)

\* ------------------------------------------------------ stream definitions
\* tap_saasoptics/streams.py (STREAMS) in declared order, and the endpoint
\* configuration sync() reads from it.
TopStreams == <<"accounts", "contacts", "orders">>
ChildStreams == {"invoices"}
AllStreams == {TopStreams[i] : i \in 1..Len(TopStreams)} \cup ChildStreams

STREAMS ==
    [s \in AllStreams |->
       CASE s = "accounts" -> [bookmark_type |-> "datetime", from |-> TRUE,
                               to |-> TRUE, children |-> {"invoices"},
                               parent |-> None]
         [] s = "contacts" -> [bookmark_type |-> "datetime", from |-> FALSE,
                               to |-> FALSE, children |-> {},
                               parent |-> None]
         [] s = "orders"   -> [bookmark_type |-> "integer", from |-> TRUE,
                               to |-> FALSE, children |-> {},
                               parent |-> None]
         [] OTHER          -> [bookmark_type |-> "datetime", from |-> TRUE,
                               to |-> TRUE, children |-> {},
                               parent |-> "accounts"]]


\* config['start_date']
start_date == DtStr(0, 0, "sec")

\* --------------------------------------------------------------- the state
VARIABLES
    selected,            \* get_selected_streams(catalog)
    api,                 \* replication-key values of the records the API holds, per stream
    now,                 \* utils.now()
    state,               \* the state dict: bookmarks, currently_syncing
    persisted,           \* the state last written by singer.write_state
    state0,              \* the persisted state the first run started from
    run,                 \* 1 for the first run, 2.. for the restarted ones
    pc,                  \* position of the run
    err,                 \* the exception that ended the run
    last_stream, idx,    \* locals of sync
    cur,                 \* stream_name of the sync_endpoint in progress
    last_datetime, last_integer, max_bookmark_value,
    start_window, end_window,          \* locals of sync_endpoint
    started,             \* <<run, stream>> for every sync_endpoint call sync made
    schemas,             \* streams announced by write_schema
    windows,             \* <<start, end>> of every window the while loop entered
    emitted,             \* records written by write_record, in order
    pr,                  \* the frame of process_records
    pf                   \* the locals of the parent_id selection of sync_endpoint

vars == <<selected, api, now, state, persisted, state0, run, pc, err,
          last_stream, idx, cur, last_datetime, last_integer,
          max_bookmark_value, start_window, end_window, started, schemas,
          windows, emitted, pr, pf>>

inputs == <<selected, api, state0>>
locals == <<last_stream, idx, cur, last_datetime, last_integer,
            max_bookmark_value, start_window, end_window>>

NoDt == [t |-> 0 - 1, us |-> 0]
NoFrame == [stream_name |-> None, records |-> <<>>, i |-> 0, counter |-> 0,
            bookmark_type |-> None, max_bookmark_value |-> NoneV,
            last_datetime |-> NoneV, last_integer |-> NoneV,
            parent |-> None, parent_id |-> NoneV]

\* the key-property names a stream may declare, and the locals of lines
\* 244-253 before the selection has started
KeyFields == {"id", "account_id", "code"}
NoSelection == [id_fields |-> <<>>, record |-> [f \in KeyFields |-> NoneV],
                i |-> 0, parent_id_field |-> None, parent_id |-> NoneV]

\* ------------------------------------------------------------ bookmark store
get_bookmark(st, stream, default) ==
    IF st.bookmarks[stream] = NoneV THEN default ELSE st.bookmarks[stream]

write_bookmark(st, stream, value) ==
    [st EXCEPT !.bookmarks[stream] = value]

\* update_currently_syncing that leaves the pointer as it was
update_currently_syncing_Unset(st, stream_name) == st

\* the state dict after update_currently_syncing (del / set_currently_syncing)
update_currently_syncing(st, stream_name) ==
    [st EXCEPT !.currently_syncing = stream_name]

\* should_sync_stream that does not look at the stream to resume from
should_sync_stream_NoResume(selected_streams, last, stream_name) ==
    [should |-> stream_name \in selected_streams, last_stream |-> None]

\* lines 343-349: (should the stream be synced, the stream still to resume)
should_sync_stream(selected_streams, last, stream_name) ==
    IF last = stream_name \/ last = None
    THEN [should |-> stream_name \in selected_streams, last_stream |-> None]
    ELSE [should |-> FALSE, last_stream |-> last]

\* ------------------------------------------------------------------ inputs
Grid == {[t |-> d * DayStep * DaySecs, us |-> 0] : d \in 0..MaxDayIdx}
GridStr == {DtStr(g.t, g.us, "sec") : g \in Grid}
MaxApiRecs == 2
ApiSets == {r \in SUBSET GridStr : Cardinality(r) <= MaxApiRecs}
\* the records the API holds for the child stream, the same under every
\* parent record: none, or one modified at start_date
ChildApiSets == {r \in ApiSets : r \subseteq {start_date}}
\* currently_syncing as a run may find it: nothing, a stream of STREAMS, or
\* the name of a stream STREAMS no longer declares
RemovedStream == "removed_stream"
Pointers == {None} \cup AllStreams \cup {RemovedStream}

\* an exception leaves sync: the frames of sync and sync_endpoint are gone
Raise(e) ==
    /\ pc' = "failed"
    /\ err' = e
    /\ last_stream' = None /\ idx' = 0 /\ cur' = None
    /\ last_datetime' = NoneV /\ last_integer' = NoneV
    /\ max_bookmark_value' = NoneV
    /\ start_window' = NoDt /\ end_window' = NoDt

Init ==
    /\ selected \in SUBSET AllStreams
    /\ \E a \in ApiSets, c \in ChildApiSets :
          api = [accounts |-> a, invoices |-> c]
    /\ now \in Grid
    /\ \E b \in {NoneV} \cup GridStr, p \in Pointers :
          state = [bookmarks |-> [s \in AllStreams |->
                                    IF s = "accounts" THEN b ELSE NoneV],
                   currently_syncing |-> p]
    /\ persisted = state
    /\ state0 = state
    /\ run = 1
    /\ pc = "sync"
    /\ err = None
    /\ last_stream = None /\ idx = 0 /\ cur = None
    /\ last_datetime = NoneV /\ last_integer = NoneV
    /\ max_bookmark_value = NoneV
    /\ start_window = NoDt /\ end_window = NoDt
    /\ started = <<>>
    /\ schemas = <<>>
    /\ windows = <<>>
    /\ emitted = <<>>
    /\ pr = NoFrame
    /\ pf = NoSelection

\* ------------------------------------------------------------------- sync
\* sync, lines 352-364
SyncNothingSelected ==
    /\ pc = "sync"
    /\ selected = {}
    /\ pc' = "done"
    /\ UNCHANGED <<inputs, pf, now, state, persisted, run, err, locals, started,
                   schemas, windows, emitted, pr>>

SyncStart ==
    /\ pc = "sync"
    /\ selected # {}
    /\ last_stream' = state.currently_syncing
    /\ idx' = 1
    /\ pc' = "for"
    /\ UNCHANGED <<inputs, pf, now, state, persisted, run, err, cur,
                   last_datetime, last_integer, max_bookmark_value,
                   start_window, end_window, started, schemas, windows,
                   emitted, pr>>

\* sync, lines 368-372: the stream is not to be synced
SkipStream ==
    /\ pc = "for"
    /\ idx <= Len(TopStreams)
    /\ LET r == should_sync_stream(selected, last_stream, TopStreams[idx])
       IN  /\ ~r.should
           /\ last_stream' = r.last_stream
    /\ idx' = idx + 1
    /\ UNCHANGED <<inputs, pf, now, state, persisted, run, pc, err, cur,
                   last_datetime, last_integer, max_bookmark_value,
                   start_window, end_window, started, schemas, windows,
                   emitted, pr>>

\* sync, lines 368-374: the stream is to be synced; the pointer is set and
\* the state written
StartStream ==
    /\ pc = "for"
    /\ idx <= Len(TopStreams)
    /\ LET r == should_sync_stream(selected, last_stream, TopStreams[idx])
       IN  /\ r.should
           /\ last_stream' = r.last_stream
    /\ state' = update_currently_syncing(state, TopStreams[idx])
    /\ persisted' = state'
    /\ pc' = "call"
    /\ UNCHANGED <<inputs, pf, now, run, err, idx, cur, last_datetime,
                   last_integer, max_bookmark_value, start_window,
                   end_window, started, schemas, windows, emitted, pr>>

\* sync, line 368: STREAMS is exhausted
SyncDone ==
    /\ pc = "for"
    /\ idx > Len(TopStreams)
    /\ pc' = "done"
    /\ UNCHANGED <<inputs, pf, now, state, persisted, run, err, locals, started,
                   schemas, windows, emitted, pr>>

\* ----------------------------------------------------------- sync_endpoint
\* Every path through sync_endpoint ends in an exception before the first
\* client.get (line 188):
\*   bookmark_type 'integer'      last_datetime is None and
\*                                strptime_to_utc(None) raises (144, 149)
\*   no from/to range             diff_sec is not defined (152)
\*   from/to range, lag           bookmark_query_field is not defined (157)
\*   from/to range, bookmark=now  total_records is not assigned (312)
\* so lines 158-309 (requests, process_records, children, write_bookmark,
\* the next window) are not steps of any run.  process_records is modelled
\* on its own below.
\* sync lines 375-390 call sync_endpoint; lines 127-138: the last bookmark
\* is read, the schema announced
EndpointEnter ==
    /\ pc = "call"
    /\ cur' = TopStreams[idx]
    /\ started' = Append(started, <<run, cur'>>)
    /\ IF STREAMS[cur'].bookmark_type = "integer"
       THEN /\ last_integer' = get_bookmark(state, cur', IntV(0))
            /\ last_datetime' = NoneV
            /\ max_bookmark_value' = last_integer'
       ELSE /\ last_datetime' = get_bookmark(state, cur', start_date)
            /\ last_integer' = NoneV
            /\ max_bookmark_value' = last_datetime'
    /\ schemas' = Append(schemas, cur')
    /\ windows' = <<>>
    /\ pc' = "window"
    /\ UNCHANGED <<inputs, pf, now, state, persisted, run, err, last_stream, idx,
                   start_window, end_window, emitted, pr>>

\* lines 142-147: the stream has a from/to range filter
RangeWindow ==
    /\ pc = "window"
    /\ STREAMS[cur].from /\ STREAMS[cur].to
    /\ last_datetime # NoneV
    /\ start_window' = strptime_to_utc(last_datetime)
    /\ end_window' = IF DtGT(PlusDays(start_window', DaysInterval), now)
                     THEN now
                     ELSE PlusDays(start_window', DaysInterval)
    /\ pc' = "while"
    /\ UNCHANGED <<inputs, pf, now, state, persisted, run, err, last_stream, idx,
                   cur, last_datetime, last_integer, max_bookmark_value,
                   started, schemas, windows, emitted, pr>>

\* lines 144, 149: strptime_to_utc(last_datetime) with last_datetime = None,
\* which is what an integer stream has: TypeError
StrptimeNone ==
    /\ pc = "window"
    /\ last_datetime = NoneV
    /\ Raise("TypeError:149")
    /\ UNCHANGED <<inputs, pf, now, state, persisted, run, started, schemas,
                   windows, emitted, pr>>

\* lines 148-152: no from/to range filter; diff_sec is not defined
\* (line 151 assigns diff_secs): NameError
NoRangeWindow ==
    /\ pc = "window"
    /\ ~(STREAMS[cur].from /\ STREAMS[cur].to)
    /\ last_datetime # NoneV
    /\ Raise("NameError:152")
    /\ UNCHANGED <<inputs, pf, now, state, persisted, run, started, schemas,
                   windows, emitted, pr>>

\* lines 153-157: the loop is entered; the argument of LOGGER.info reads
\* bookmark_query_field, a name that is neither a parameter, a local nor a
\* global of the module: NameError, before the window's first request
WindowEnter ==
    /\ pc = "while"
    /\ start_window # now
    /\ windows' = Append(windows, <<start_window, end_window>>)
    /\ Raise("NameError:157")
    /\ UNCHANGED <<inputs, pf, now, state, persisted, run, started, schemas,
                   emitted, pr>>

\* lines 153, 312: the loop is not entered; total_records was never
\* assigned: UnboundLocalError
NoWindowReturn ==
    /\ pc = "while"
    /\ start_window = now
    /\ Raise("UnboundLocalError:312")
    /\ UNCHANGED <<inputs, pf, now, state, persisted, run, started, schemas,
                   windows, emitted, pr>>

\* ------------------------------------------------------ abort and restart
\* the process is killed between two steps
Abort ==
    /\ pc \in {"sync", "for", "call", "window", "while"}
    /\ Raise("killed")
    /\ UNCHANGED <<inputs, pf, now, state, persisted, run, started, schemas,
                   windows, emitted, pr>>

\* sync is run again, from the state that was persisted
Restart ==
    /\ pc \in {"failed", "done"}
    /\ run < MaxRuns
    /\ run' = run + 1
    /\ state' = persisted
    /\ now' \in {n \in Grid : ~DtGT(now, n)}
    /\ pc' = "sync"
    /\ err' = None
    /\ UNCHANGED <<inputs, pf, persisted, locals, started, schemas, windows,
                   emitted, pr>>

Next ==
    \/ SyncNothingSelected
    \/ SyncStart
    \/ SkipStream
    \/ StartStream
    \/ SyncDone
    \/ EndpointEnter
    \/ RangeWindow
    \/ StrptimeNone
    \/ NoRangeWindow
    \/ WindowEnter
    \/ NoWindowReturn
    \/ Abort
    \/ Restart

Spec == Init /\ [][Next]_vars


\* --------------------------------------------------------- process_records
\* A record is [id, key, pid]: key the value of the replication-key field
\* (NoneV: the record has no such field), pid the value of the field
\* <parent>_id (NoneV: no such field).

\* lines 73-74: the parent's id is added to a child's record
AddParentId(record, parent, parent_id) ==
    IF Truthy(parent_id) /\ parent # None
    THEN [record EXCEPT !.pid = parent_id]
    ELSE record

\* Transformer.transform and Transformer._transform_datetime: a date-time
\* value is parsed and written back as %Y-%m-%dT%H:%M:%S.%fZ
transform_datetime(v) ==
    IF v.k = "dt" THEN strftime(strptime_to_utc(v)) ELSE v

\* lines 77-80.  The fields the stream's schema declares are kept; the
\* replication key (a date-time for a datetime stream) and <parent>_id are
\* taken to be declared.
Transform(record) == [record EXCEPT !.key = transform_datetime(record.key)]

\* lines 82-86: the new max_bookmark_value
NewMaxBookmark(record, max) ==
    IF record.key # NoneV /\ (max = NoneV \/ PyGT(record.key, max))
    THEN record.key
    ELSE max

\* process_records that writes every record, whatever its replication key
KeepRecord_NoFilter(record, bookmark_type, last_dt, last_int) == TRUE

\* lines 88-103: is the transformed record written to the sink
KeepRecord(record, bookmark_type, last_dt, last_int) ==
    IF record.key # NoneV
    THEN CASE bookmark_type = "integer" -> PyGE(record.key, last_int)
           [] bookmark_type = "datetime" ->
                PyGE(transform_datetime(record.key), transform_datetime(last_dt))
           [] OTHER -> FALSE
    ELSE TRUE

\* lines 71-103, one iteration of the loop over the page's records
ProcessRecord ==
    /\ pc = "process_records"
    /\ pr.i <= Len(pr.records)
    /\ LET record == AddParentId(pr.records[pr.i], pr.parent, pr.parent_id)
           transformed_record == Transform(record)
           keep == KeepRecord(transformed_record, pr.bookmark_type,
                              pr.last_datetime, pr.last_integer)
       IN  /\ emitted' = IF keep
                         THEN Append(emitted,
                                     [stream |-> pr.stream_name,
                                      pos |-> pr.i,
                                      record |-> transformed_record])
                         ELSE emitted
           /\ pr' = [pr EXCEPT
                       !.i = pr.i + 1,
                       !.counter = IF keep THEN pr.counter + 1 ELSE pr.counter,
                       !.max_bookmark_value =
                           NewMaxBookmark(transformed_record,
                                          pr.max_bookmark_value)]
    /\ UNCHANGED <<inputs, pf, now, state, persisted, run, pc, err, locals,
                   started, schemas, windows>>

\* line 105
ProcessRecordsReturn ==
    /\ pc = "process_records"
    /\ pr.i > Len(pr.records)
    /\ pc' = "returned"
    /\ UNCHANGED <<inputs, pf, now, state, persisted, run, err, locals, started,
                   schemas, windows, emitted, pr>>

\* the inputs of process_records: the arguments sync_endpoint passes at
\* lines 215-226 for a stream of STREAMS and a page of raw records
DtStrs == {DtStr(s, u, "us") : s \in 0..MaxSec, u \in 0..MaxMicro}
              \cup {DtStr(s, 0, "sec") : s \in 0..MaxSec}
KeysOf(bookmark_type) ==
    IF bookmark_type = "integer" THEN {IntV(i) : i \in 0..MaxInt} ELSE DtStrs
ParentIds == {NoneV, IntV(0), IntV(1)}
PageStreams == {"accounts", "orders", "invoices"}
Pages(keys) ==
    UNION {[1..n -> [id : {1}, key : keys \cup {NoneV}, pid : {NoneV}]] :
             n \in 1..MaxRecs}

InitPR ==
    /\ selected = AllStreams
    /\ api = [accounts |-> {}, invoices |-> {}]
    /\ now = [t |-> 0, us |-> 0]
    /\ run = 1
    /\ pc = "process_records"
    /\ err = None
    /\ last_stream = None /\ idx = 0 /\ cur = None
    /\ last_datetime = NoneV /\ last_integer = NoneV
    /\ max_bookmark_value = NoneV
    /\ start_window = NoDt /\ end_window = NoDt
    /\ started = <<>>
    /\ schemas = <<>>
    /\ windows = <<>>
    /\ emitted = <<>>
    /\ \E s \in PageStreams :
         \E last \in KeysOf(STREAMS[s].bookmark_type) :
           \E max \in {last} \cup {transform_datetime(k) :
                                     k \in {x \in KeysOf(STREAMS[s].bookmark_type) :
                                              PyGT(transform_datetime(x), last)}},
              page \in Pages(KeysOf(STREAMS[s].bookmark_type)),
              parent_id \in IF STREAMS[s].parent = None
                            THEN {NoneV} ELSE ParentIds :
             /\ pr = [stream_name |-> s, records |-> page, i |-> 1,
                      counter |-> 0,
                      bookmark_type |-> STREAMS[s].bookmark_type,
                      max_bookmark_value |-> max,
                      last_datetime |-> IF STREAMS[s].bookmark_type = "integer"
                                        THEN NoneV ELSE last,
                      last_integer |-> IF STREAMS[s].bookmark_type = "integer"
                                       THEN last ELSE NoneV,
                      parent |-> STREAMS[s].parent,
                      parent_id |-> parent_id]
             /\ state = [bookmarks |-> [x \in AllStreams |->
                                          IF x = s THEN max ELSE NoneV],
                         currently_syncing |-> None]
    /\ persisted = state
    /\ state0 = state
    /\ pf = NoSelection

NextPR ==
    \/ ProcessRecord
    \/ ProcessRecordsReturn

SpecPR == InitPR /\ [][NextPR]_vars

\* ------------------------------------------------- sync_endpoint: parent_id
\* Lines 244-253, the selection of the parent record's field whose value a
\* child sync receives as parent_id, on its own for a list of key
\* properties and a parent record.  pc is "parent_id" while the loop over
\* id_fields runs and "parent_id_set" after line 253.
MaxIdFields == 2

\* a selection that keeps the last field seen unless it already holds 'id'
ParentIdField_LastWins(i, id_field, parent_id_field) ==
    IF parent_id_field = "id" THEN parent_id_field ELSE id_field

\* lines 248-251: parent_id_field after the iteration i for id_field
ParentIdField(i, id_field, parent_id_field) ==
    IF i = 0 \/ id_field = "id" THEN id_field ELSE parent_id_field

\* lines 247-252, one iteration of the loop over id_fields
SetParentIdField ==
    /\ pc = "parent_id"
    /\ pf.i < Len(pf.id_fields)
    /\ pf' = [pf EXCEPT
                !.parent_id_field =
                    ParentIdField(pf.i, pf.id_fields[pf.i + 1], @),
                !.i = @ + 1]
    /\ UNCHANGED <<inputs, now, state, persisted, run, pc, err, locals,
                   started, schemas, windows, emitted, pr>>

\* line 253
GetParentId ==
    /\ pc = "parent_id"
    /\ pf.i = Len(pf.id_fields)
    /\ pf' = [pf EXCEPT !.parent_id = pf.record[pf.parent_id_field]]
    /\ pc' = "parent_id_set"
    /\ UNCHANGED <<inputs, now, state, persisted, run, err, locals,
                   started, schemas, windows, emitted, pr>>

\* the key_properties of a stream: one to MaxIdFields distinct field names
IdFieldLists ==
    {l \in UNION {[1..n -> KeyFields] : n \in 1..MaxIdFields} :
        \A a, b \in 1..Len(l) : l[a] = l[b] => a = b}
\* a transformed parent record: a value for each of its key fields
ParentRecordsIn == [KeyFields -> {IntV(v) : v \in 0..MaxInt}]

InitPF ==
    /\ selected = AllStreams
    /\ api = [accounts |-> {}, invoices |-> {}]
    /\ now = [t |-> 0, us |-> 0]
    /\ state = [bookmarks |-> [x \in AllStreams |-> NoneV],
                currently_syncing |-> None]
    /\ persisted = state
    /\ state0 = state
    /\ run = 1
    /\ pc = "parent_id"
    /\ err = None
    /\ last_stream = None /\ idx = 0 /\ cur = None
    /\ last_datetime = NoneV /\ last_integer = NoneV
    /\ max_bookmark_value = NoneV
    /\ start_window = NoDt /\ end_window = NoDt
    /\ started = <<>>
    /\ schemas = <<>>
    /\ windows = <<>>
    /\ emitted = <<>>
    /\ pr = NoFrame
    /\ \E id_fields \in IdFieldLists, record \in ParentRecordsIn :
          pf = [id_fields |-> id_fields, record |-> record, i |-> 0,
                parent_id_field |-> None, parent_id |-> NoneV]

NextPF ==
    \/ SetParentIdField
    \/ GetParentId

SpecPF == InitPF /\ [][NextPF]_vars


\* ============================================================== properties
TopSet == {TopStreams[i] : i \in 1..Len(TopStreams)}
Ended == pc \in {"done", "failed"} /\ err # "killed"

\* the watermark of stream s in persisted state st
Watermark(st, s) ==
    IF STREAMS[s].bookmark_type = "integer"
    THEN get_bookmark(st, s, IntV(0))
    ELSE get_bookmark(st, s, start_date)

\* how many times the record of stream s with replication key k was emitted
Emissions(s, k) ==
    Cardinality({i \in 1..Len(emitted) :
                   /\ emitted[i].stream = s
                   /\ emitted[i].record.key # NoneV
                   /\ strptime_to_utc(emitted[i].record.key) = strptime_to_utc(k)})

\* the streams sync_endpoint was called for in run r, in order
RECURSIVE StartedIn(_, _)
StartedIn(seq, r) ==
    IF seq = <<>> THEN <<>>
    ELSE IF seq[1][1] = r
         THEN <<seq[1][2]>> \o StartedIn(Tail(seq), r)
         ELSE StartedIn(Tail(seq), r)

\* the selected top-level streams from position i on, in declared order
RECURSIVE SelectedFrom(_)
SelectedFrom(i) ==
    IF i > Len(TopStreams) THEN <<>>
    ELSE IF TopStreams[i] \in selected
         THEN <<TopStreams[i]>> \o SelectedFrom(i + 1)
         ELSE SelectedFrom(i + 1)

IndexOf(s) == CHOOSE i \in 1..Len(TopStreams) : TopStreams[i] = s

\* C1: crash resumability without data loss.  When the first run of sync was
\* aborted or failed and the run restarted from the persisted state has
\* ended, every record the API holds with replication key >= the stream's
\* watermark at the start of the first run (and earlier than now, the end of
\* the last window) has been emitted by one of the two runs, and the
\* persisted bookmarks are those of committed windows only (no window was
\* committed, so they are the initial ones).
C1_ResumeWithoutLoss ==
    (/\ run = 2
     /\ Ended
     /\ "accounts" \in selected
     /\ state0.currently_syncing \in {None, "accounts"})
    => /\ \A k \in api["accounts"] :
            (/\ ChronGE(k, Watermark(state0, "accounts"))
             /\ DtGT(now, strptime_to_utc(k)))
               => Emissions("accounts", k) >= 1
       /\ persisted.bookmarks = state0.bookmarks

\* C3: process_records never writes to the sink a record whose replication
\* key is strictly less than the watermark the invocation started with
\* (last_integer, last_datetime).
C3_BelowWatermarkNeverEmitted ==
    \A i \in 1..Len(emitted) :
       LET key == emitted[i].record.key
       IN  key # NoneV =>
             IF pr.bookmark_type = "integer"
             THEN key.n >= pr.last_integer.n
             ELSE ChronGE(key, pr.last_datetime)

\* C3 witness: last_integer = 1 and a page with keys [0, 2]: process_records
\* has returned, the record with key 0 was withheld and the one with key 2
\* written.
C3_Witness ==
    /\ pc = "returned"
    /\ pr.bookmark_type = "integer"
    /\ pr.last_integer = IntV(1)
    /\ Len(pr.records) = 2
    /\ pr.records[1].key = IntV(0)
    /\ pr.records[2].key = IntV(2)
    /\ Len(emitted) = 1
    /\ emitted[1].record.key = IntV(2)

\* C4: when a run has ended, every record the API holds for a stream the
\* run synced, with replication key >= the stream's watermark at the start
\* of the run (and earlier than now, the end of the last window), has been
\* emitted exactly once.
C4_EmittedExactlyOnce ==
    Ended =>
      \A j \in 1..Len(started) :
         (started[j][1] = run /\ started[j][2] \in DOMAIN api) =>
            \A k \in api[started[j][2]] :
               (/\ ChronGE(k, Watermark(persisted, started[j][2]))
                /\ DtGT(now, strptime_to_utc(k)))
                  => Emissions(started[j][2], k) = 1

\* the windows ws are consecutive, each with start < end <= n, each
\* DaysInterval wide but possibly the last, and their union is [a, n)
Covers(ws, a, n) ==
    IF a = n
    THEN ws = <<>>
    ELSE /\ Len(ws) >= 1
         /\ ws[1][1] = a
         /\ ws[Len(ws)][2] = n
         /\ \A i \in 1..Len(ws) :
               /\ DtGT(ws[i][2], ws[i][1])
               /\ ~DtGT(ws[i][2], n)
               /\ ~DtGT(ws[i][2], PlusDays(ws[i][1], DaysInterval))
               /\ i < Len(ws) => /\ ws[i][2] = PlusDays(ws[i][1], DaysInterval)
                                 /\ ws[i + 1][1] = ws[i][2]

\* C5: when the sync of a stream with a from/to range, started from a
\* bookmark not later than now, has ended, the windows its loop iterated are
\* consecutive, non-overlapping, at most 30 days wide, each with
\* start < end <= now, and cover [last_bookmark, now).
C5_WindowCoverage ==
    (/\ Ended
     /\ started # <<>>
     /\ started[Len(started)][1] = run
     /\ STREAMS[started[Len(started)][2]].from
     /\ STREAMS[started[Len(started)][2]].to
     /\ ~DtGT(strptime_to_utc(Watermark(persisted,
                                        started[Len(started)][2])), now))
    => Covers(windows,
              strptime_to_utc(Watermark(persisted, started[Len(started)][2])),
              now)

\* C6: when the first run started with the pointer naming a selected
\* top-level stream S and has ended, the streams it synced are S and then
\* every selected stream after S, in declared order, and none before S; a
\* run that ended normally left the persisted pointer cleared.
C6_Resumability ==
    (/\ run = 1
     /\ Ended
     /\ state0.currently_syncing \in TopSet \cap selected)
    => /\ StartedIn(started, 1)
            = SelectedFrom(IndexOf(state0.currently_syncing))
       /\ pc = "done" => persisted.currently_syncing = None

\* C7: the watermark persisted for a stream is >= the replication key of
\* every record already emitted for that stream.
C7_WatermarkDominatesEmitted ==
    \A i \in 1..Len(emitted) :
       emitted[i].record.key # NoneV
          => ChronGE(Watermark(persisted, emitted[i].stream),
                     emitted[i].record.key)

\* C8: every record emitted by an invocation for a child stream carries
\* <parent>_id equal to the parent record's key value the invocation was
\* started with.
C8_ChildCarriesParentId ==
    \A i \in 1..Len(emitted) :
       STREAMS[emitted[i].stream].parent # None
          => emitted[i].record.pid = pr.parent_id

RanThisRun == started # <<>> /\ started[Len(started)][1] = run
LastStarted == started[Len(started)][2]
HasRange(s) == STREAMS[s].from /\ STREAMS[s].to

\* C11: when the API holds no record for a stream, so that the first page
\* requested for it is empty, and the stream's bookmark is earlier than now,
\* the sync of the stream returns (0 records) without raising: the run,
\* having no later stream to sync, ends normally, with no record emitted
\* and the bookmarks as they were.
C11_EmptyFirstPageReturnsZero ==
    (/\ Ended
     /\ RanThisRun
     /\ LastStarted \in DOMAIN api
     /\ api[LastStarted] = {}
     /\ DtGT(now, strptime_to_utc(Watermark(persisted, LastStarted))))
    => /\ pc = "done"
       /\ emitted = <<>>
       /\ persisted.bookmarks = state0.bookmarks

\* C12: when the sync of a stream with a from/to range started from a
\* bookmark equal to now, the window loop iterates zero times (no window,
\* hence no request), no bookmark is written, and the invocation returns:
\* the run, having no later stream to sync, ends normally.
C12_ZeroLagCompletes ==
    (/\ Ended
     /\ RanThisRun
     /\ HasRange(LastStarted)
     /\ strptime_to_utc(Watermark(persisted, LastStarted)) = now)
    => /\ windows = <<>>
       /\ persisted.bookmarks = state0.bookmarks
       /\ pc = "done"

\* C13: when every page of the API is empty for a stream with a from/to
\* range whose bookmark is not later than now, an empty page ends only its
\* own window: the windows the loop iterated still run, consecutively, from
\* the bookmark up to now.
C13_EmptyPageEndsOnlyItsWindow ==
    (/\ Ended
     /\ RanThisRun
     /\ HasRange(LastStarted)
     /\ LastStarted \in DOMAIN api
     /\ api[LastStarted] = {}
     /\ ~DtGT(strptime_to_utc(Watermark(persisted, LastStarted)), now))
    => /\ windows # <<>> => windows[Len(windows)][2] = now
       /\ \A i \in 1..(Len(windows) - 1) : windows[i + 1][1] = windows[i][2]

\* C14: when process_records has returned from a page, the watermark it
\* hands back, which write_bookmark then persists for the stream, is the
\* maximum of the bookmark the page started with and the replication keys of
\* all the records of the page, whether they were emitted or filtered out.
C14_NewWatermarkIsMax ==
    pc = "returned" =>
      LET seen == {persisted.bookmarks[pr.stream_name]}
                     \cup ({pr.records[i].key : i \in 1..Len(pr.records)}
                              \ {NoneV})
      IN  /\ \A v \in seen : ChronGE(pr.max_bookmark_value, v)
          /\ \E v \in seen :
                strptime_to_utc(v) = strptime_to_utc(pr.max_bookmark_value)

\* the accounts records a run started from state st requests: those the API
\* holds in [watermark, now)
ParentRecords(st) ==
    {k \in api["accounts"] :
        /\ ChronGE(k, Watermark(st, "accounts"))
        /\ DtGT(now, strptime_to_utc(k))}

\* C15: when a run that synced the parent stream accounts, with its child
\* invoices selected, has ended, and a page of accounts held a record, the
\* child sync of invoices was invoked for that record (depth-first: before
\* the parent's bookmark was persisted and its next page requested).
C15_ChildrenRunPerParentRecord ==
    (/\ Ended
     /\ \E j \in 1..Len(started) : started[j] = <<run, "accounts">>
     /\ "invoices" \in selected
     /\ ParentRecords(persisted) # {})
    => \E j \in 1..Len(started) : started[j] = <<run, "invoices">>

\* C16: the sync of a stream with a from/to range terminates by returning,
\* whatever its last bookmark (earlier than, equal to or later than now):
\* when the run has ended the invocation has returned, the run having no
\* later stream to sync, and the window cursor advanced in strictly
\* increasing order until it equalled now.
C16_StreamSyncTerminates ==
    (/\ Ended
     /\ RanThisRun
     /\ HasRange(LastStarted))
    => /\ pc = "done"
       /\ \A i \in 1..Len(windows) :
             /\ DtGT(windows[i][2], windows[i][1])
             /\ i < Len(windows) => DtGT(windows[i + 1][1], windows[i][1])
       /\ windows # <<>> => windows[Len(windows)][2] = now

\* C17: the sync of a stream whose bookmark type is integer is a single
\* pass without time windows that completes without error: when the run has
\* ended the invocation has returned, the run having no later stream to
\* sync, and no window was iterated.
C17_IntegerStreamSinglePass ==
    (/\ Ended
     /\ RanThisRun
     /\ STREAMS[LastStarted].bookmark_type = "integer")
    => /\ pc = "done"
       /\ windows = <<>>

\* the names in the list of key properties l
FieldsOf(l) == {l[j] : j \in 1..Len(l)}

\* C18 as stated: when the parent_id of a parent record has been selected,
\* it is the value of the field named 'id' if the key properties hold one,
\* and otherwise the value of the last key-property field.
C18_LastWinsIdPreferred ==
    pc = "parent_id_set" =>
      LET f == IF "id" \in FieldsOf(pf.id_fields)
               THEN "id" ELSE pf.id_fields[Len(pf.id_fields)]
      IN  pf.parent_id_field = f /\ pf.parent_id = pf.record[f]

\* C18 amended: when the parent_id of a parent record has been selected, it
\* is the value of the field named 'id' if the key properties hold one, and
\* otherwise the value of the first key-property field.
C18_FirstWinsIdPreferred ==
    pc = "parent_id_set" =>
      LET f == IF "id" \in FieldsOf(pf.id_fields)
               THEN "id" ELSE pf.id_fields[1]
      IN  pf.parent_id_field = f /\ pf.parent_id = pf.record[f]

\* C18 witness: key properties [account_id, code] and a record with
\* account_id 1 and code 2: the parent_id selected is 1, of account_id.
C18_Witness ==
    /\ pc = "parent_id_set"
    /\ pf.id_fields = <<"account_id", "code">>
    /\ pf.record["account_id"] = IntV(1)
    /\ pf.record["code"] = IntV(2)
    /\ pf.parent_id_field = "account_id"
    /\ pf.parent_id = IntV(1)

\* C19: when the first run, having synced the parent stream accounts with
\* its child invoices selected, has ended, every invoices record the API
\* holds under a parent record, with replication key >= the watermark
\* invoices had when the run started, has been emitted once for each of the
\* several parent records of the run: none was withheld, whatever the
\* parents' order.
C19_ChildWatermarkIndependentOfParents ==
    (/\ run = 1
     /\ Ended
     /\ \E j \in 1..Len(started) : started[j] = <<1, "accounts">>
     /\ "invoices" \in selected
     /\ Cardinality(ParentRecords(state0)) >= 2)
    => \A c \in api["invoices"] :
          ChronGE(c, Watermark(state0, "invoices"))
             => Emissions("invoices", c) = Cardinality(ParentRecords(state0))

\* C20: when the first run started with a pointer that names no top-level
\* stream of STREAMS (a child stream, or a stream no longer declared),
\* should_sync_stream is false for every stream, no run, the first or a
\* later one, syncs a stream or emits a record, none fails, and the pointer,
\* in the state dict and persisted, stays as it was.
C20_StalePointerBlocksRun ==
    state0.currently_syncing \notin TopSet \cup {None}
    => /\ \A i \in 1..Len(TopStreams) :
             ~should_sync_stream(selected, state0.currently_syncing,
                                 TopStreams[i]).should
       /\ started = <<>>
       /\ schemas = <<>>
       /\ emitted = <<>>
       /\ err \in {None, "killed"}
       /\ state.currently_syncing = state0.currently_syncing
       /\ persisted = state0

\* C20 witness: the pointer names the child stream invoices and every
\* stream is selected: the second run has ended normally, no stream was
\* synced by either run and the persisted pointer still names invoices.
C20_Witness ==
    /\ state0.currently_syncing = "invoices"
    /\ selected = AllStreams
    /\ run = 2
    /\ pc = "done"
    /\ started = <<>>
    /\ persisted.currently_syncing = "invoices"

====
